---- MODULE Spec2Model ----
(***************************************************************************)
(* Model of the recoverable ECDSA signature codec (class Signature) and of *)
(* the ABI call-data serializer (serializeCallData).                       *)
(*                                                                         *)
(* Byte buffers are sequences over 0..255.  A BigInteger is modelled by    *)
(* its magnitude: the big-endian byte sequence without leading zero bytes  *)
(* (<<>> is zero), so 256-bit values never pass through machine integers.  *)
(* Hex strings and ABI type strings are sequences of one-character         *)
(* strings.                                                                *)
(***************************************************************************)
EXTENDS Integers, Sequences, FiniteSets, TLC

VARIABLES
    \* ---- wire codec (fromBuffer / toBuffer / fromHex / toHex) ----
    op,        \* the codec operation performed last, "init" before any
    inBuf,     \* the buffer handed to fromBuffer
    inHex,     \* the hex string handed to fromHex
    sig,       \* the Signature object produced, NoSig when none
    thrown,    \* message of the error raised by the last call, "" when none
    outBuf,    \* the buffer returned by toBuffer
    outHex     \* the string returned by toHex

codecVars == <<op, inBuf, inHex, sig, thrown, outBuf, outHex>>

VARIABLES
    \* ---- signing protocol (signBuffer / signBufferSha256) and its users ----
    pc,          \* position of the running call
    entry,       \* the entry point called: "signBuffer" or "signBufferSha256"
    hash,        \* the hash argument: [len, isBuffer, id]
    engine,      \* the signing engine for this hash and key: nonce -> (r, s)
    nonce,       \* local nonce of signBufferSha256
    attempts,    \* engine calls of the running signBufferSha256: <<nonce, (r, s)>>
    inLoop,      \* TRUE when signBufferSha256 was called from the while body
    signature,   \* local signature of signBuffer / value returned
    times,       \* local times of signBuffer
    log,         \* console.log lines
    signError,   \* message of the error thrown by the signing call
    recovered,   \* value returned by recoverPublicKey, NoKey before
    verifyCalls, \* calls made to a verification primitive
    verifyOut    \* outcome of the last verifyHash / verifyHashV2

signVars == <<pc, entry, hash, engine, nonce, attempts, inLoop, signature,
              times, log, signError, recovered, verifyCalls, verifyOut>>

VARIABLES
    \* ---- serializeCallData and its caller ----
    abi,         \* the caller's abi object
    abi0,        \* the abi object as the caller built it
    outputs      \* one entry per call made: [action, params, out]

abiVars == <<abi, abi0, outputs>>

vars == <<codecVars, signVars, abiVars>>

\* ------------------------------------------------------------------------
\* Sizes of the wire format
\* ------------------------------------------------------------------------
SigLen == 65          \* total length of the compact signature
IntLen == 32          \* bytes of r and of s
HeaderBase == 27      \* compact-signature base offset of the header byte
HeaderMask == 7       \* bits the header may use above the base
RecoveryMask == 3     \* bits of the header that hold the recovery index

\* Number of leading zero bytes varied in the representative 256-bit values.
MaxLead == 2

Byte == 0..255

NoSig == [r |-> <<>>, s |-> <<>>, i |-> -1]

\* ------------------------------------------------------------------------
\* Byte-sequence helpers
\* ------------------------------------------------------------------------
Min(a, b) == IF a < b THEN a ELSE b

Max(a, b) == IF a < b THEN b ELSE a

Fill(n, b) == [k \in 1..Max(n, 0) |-> b]

\* x & m for a mask m = 2^k - 1, on JavaScript's two's-complement int32:
\* the low k bits, which for a negative x is the non-negative residue.
BitAnd(x, m) == x % (m + 1)

\* Buffer.prototype.slice(start, end): 0-based, end exclusive, clamped.
Slice(buf, start, end) == SubSeq(buf, start + 1, Min(end, Len(buf)))

\* Buffer.prototype.copy(target, targetStart): bytes past the target's end
\* are dropped.
Copy(src, target, targetStart) ==
    [k \in 1..Len(target) |->
        IF k > targetStart /\ k <= targetStart + Len(src)
        THEN src[k - targetStart]
        ELSE target[k]]

\* Buffer.prototype.writeUInt8(value, offset)
WriteUInt8(buf, value, offset) == [buf EXCEPT ![offset + 1] = value]

\* ------------------------------------------------------------------------
\* bigi BigInteger, as used by Signature
\* ------------------------------------------------------------------------
RECURSIVE StripZeros(_)
StripZeros(bytes) ==
    IF bytes = <<>> THEN <<>>
    ELSE IF bytes[1] = 0 THEN StripZeros(Tail(bytes))
    ELSE bytes

\* BigInteger.fromBuffer: the bytes read as an unsigned big-endian integer
\* (a zero byte is prepended when the top bit is set, so the value is never
\* taken to be negative).
BigInteger_fromBuffer(bytes) ==
    IF bytes # <<>> /\ bytes[1] >= 128
    THEN StripZeros(<<0>> \o bytes)
    ELSE StripZeros(bytes)

\* toByteArray with the sign byte overwriting the top byte instead of
\* being prepended.
toByteArray_SignOverwrites(x) ==
    IF x = <<>> THEN <<0>>
    ELSE IF x[1] >= 128 THEN <<0>> \o Tail(x)
    ELSE x

\* BigInteger.prototype.toByteArray (also toDERInteger): the minimal
\* two's-complement encoding of a non-negative value.
toByteArray(x) ==
    IF x = <<>> THEN <<0>>
    ELSE IF x[1] >= 128 THEN <<0>> \o x
    ELSE x

toByteArrayUnsigned(x) ==
    LET ba == toByteArray(x) IN IF ba[1] = 0 THEN Tail(ba) ELSE ba

\* BigInteger.prototype.toBuffer(size): left-padded with zeros up to size.
BigInteger_toBuffer(x, size) ==
    LET ba == toByteArrayUnsigned(x) IN Fill(size - Len(ba), 0) \o ba

\* ------------------------------------------------------------------------
\* Hex encoding of Node's Buffer
\* ------------------------------------------------------------------------
HexLower == <<"0", "1", "2", "3", "4", "5", "6", "7",
              "8", "9", "a", "b", "c", "d", "e", "f">>

HexUpper == <<"0", "1", "2", "3", "4", "5", "6", "7",
              "8", "9", "A", "B", "C", "D", "E", "F">>

HexVal(c) == CHOOSE v \in 0..15 : HexLower[v + 1] = c \/ HexUpper[v + 1] = c

\* new Buffer(hex, 'hex'): one byte per pair of digits, either case.
Buffer_fromHex(hex) ==
    [k \in 1..(Len(hex) \div 2) |->
        16 * HexVal(hex[2 * k - 1]) + HexVal(hex[2 * k])]

\* buf.toString('hex'): two lower-case digits per byte.
Buffer_toHex(buf) ==
    [j \in 1..(2 * Len(buf)) |->
        IF j % 2 = 1
        THEN HexLower[(buf[(j + 1) \div 2] \div 16) + 1]
        ELSE HexLower[(buf[j \div 2] % 16) + 1]]

\* ------------------------------------------------------------------------
\* class Signature: constructor, fromBuffer, toBuffer, fromHex, toHex
\* ------------------------------------------------------------------------
Signature(r1, s1, i1) == [r |-> r1, s |-> s1, i |-> i1]

\* fromBuffer with the header compared against its bottom 4 bits.
fromBuffer_error_Mask15(buf) ==
    IF Len(buf) # SigLen THEN "Invalid signature length"
    ELSE IF buf[1] - HeaderBase # BitAnd(buf[1] - HeaderBase, 15)
    THEN "Invalid signature parameter"
    ELSE ""

\* The two assertions of fromBuffer; "" when both pass.
fromBuffer_error(buf) ==
    IF Len(buf) # SigLen THEN "Invalid signature length"
    ELSE IF buf[1] - HeaderBase # BitAnd(buf[1] - HeaderBase, HeaderMask)
    THEN "Invalid signature parameter"
    ELSE ""

fromBuffer_r(buf) == BigInteger_fromBuffer(Slice(buf, 1, 33))

\* fromBuffer with s sliced from offset 32.
fromBuffer_s_Slice32(buf) == BigInteger_fromBuffer(Slice(buf, 32, Len(buf)))

fromBuffer_s(buf) == BigInteger_fromBuffer(Slice(buf, 33, Len(buf)))

fromBuffer(buf) == Signature(fromBuffer_r(buf), fromBuffer_s(buf), buf[1])

\* toBuffer with s copied to offset 32.
toBuffer_Offset32(self, fresh) ==
    LET b0 == WriteUInt8(fresh, self.i, 0)
        b1 == Copy(BigInteger_toBuffer(self.r, IntLen), b0, 1)
    IN  Copy(BigInteger_toBuffer(self.s, IntLen), b1, 32)

\* toBuffer; fresh is the content of the newly allocated 65-byte buffer.
toBuffer(self, fresh) ==
    LET b0 == WriteUInt8(fresh, self.i, 0)
        b1 == Copy(BigInteger_toBuffer(self.r, IntLen), b0, 1)
    IN  Copy(BigInteger_toBuffer(self.s, IntLen), b1, 33)

\* new Buffer(65) does not promise its content: every byte may hold anything.
FreshBuffers == {Fill(SigLen, f) : f \in {0, 170, 255}}

\* ------------------------------------------------------------------------
\* Inputs of the codec
\* ------------------------------------------------------------------------
\* Representative 256-bit values, as 32-byte big-endian forms: k leading
\* zero bytes, then a byte with the top bit clear or set, then a filler.
RepInts32 ==
    {Fill(IntLen, 0)} \cup
    {Fill(k, 0) \o <<b>> \o Fill(IntLen - k - 1, c) :
        k \in 0..MaxLead, b \in {1, 128}, c \in {0, 255}}

MakeBuf(h, r32, s32) == <<h>> \o r32 \o s32

Probe32 == <<128>> \o Fill(IntLen - 1, 1)

WireInputs ==
    {MakeBuf(h, Probe32, Probe32) : h \in Byte}
    \cup {MakeBuf(h, r, s) : h \in HeaderBase..(HeaderBase + HeaderMask),
                             r \in RepInts32, s \in RepInts32}
    \cup {SubSeq(MakeBuf(h, Probe32, Probe32), 1, SigLen - 1) : h \in Byte}
    \cup {MakeBuf(h, Probe32, Probe32) \o <<1>> : h \in Byte}

Casings == {"lower", "upper", "mixed"}

HexDigit(v, casing, high) ==
    IF casing = "upper" \/ (casing = "mixed" /\ high)
    THEN HexUpper[v + 1] ELSE HexLower[v + 1]

HexEncode(buf, casing) ==
    [j \in 1..(2 * Len(buf)) |->
        IF j % 2 = 1
        THEN HexDigit(buf[(j + 1) \div 2] \div 16, casing, TRUE)
        ELSE HexDigit(buf[j \div 2] % 16, casing, FALSE)]

HexInputs ==
    {HexEncode(b, c) : b \in {w \in WireInputs : Len(w) = SigLen}, c \in Casings}

\* ------------------------------------------------------------------------
\* Codec operations
\* ------------------------------------------------------------------------
CodecInit ==
    /\ op = "init"
    /\ inBuf = <<>>
    /\ inHex = <<>>
    /\ sig = NoSig
    /\ thrown = ""
    /\ outBuf = <<>>
    /\ outHex = <<>>

Signature_fromBuffer ==
    /\ op = "init"
    /\ \E buf \in WireInputs :
        /\ inBuf' = buf
        /\ thrown' = fromBuffer_error(buf)
        /\ sig' = IF fromBuffer_error(buf) = "" THEN fromBuffer(buf) ELSE NoSig
    /\ op' = "fromBuffer"
    /\ UNCHANGED <<inHex, outBuf, outHex>>
    /\ UNCHANGED <<signVars, abiVars>>

Signature_toBuffer ==
    /\ op = "fromBuffer"
    /\ sig # NoSig
    /\ \E fresh \in FreshBuffers : outBuf' = toBuffer(sig, fresh)
    /\ op' = "toBuffer"
    /\ UNCHANGED <<inBuf, inHex, sig, thrown, outHex>>
    /\ UNCHANGED <<signVars, abiVars>>

Signature_fromHex ==
    /\ op = "init"
    /\ \E hex \in HexInputs :
        LET buf == Buffer_fromHex(hex) IN
        /\ inHex' = hex
        /\ thrown' = fromBuffer_error(buf)
        /\ sig' = IF fromBuffer_error(buf) = "" THEN fromBuffer(buf) ELSE NoSig
    /\ op' = "fromHex"
    /\ UNCHANGED <<inBuf, outBuf, outHex>>
    /\ UNCHANGED <<signVars, abiVars>>

Signature_toHex ==
    /\ op = "fromHex"
    /\ sig # NoSig
    /\ \E fresh \in FreshBuffers : outHex' = Buffer_toHex(toBuffer(sig, fresh))
    /\ op' = "toHex"
    /\ UNCHANGED <<inBuf, inHex, sig, thrown, outBuf>>
    /\ UNCHANGED <<signVars, abiVars>>

CodecNext ==
    \/ Signature_fromBuffer
    \/ Signature_toBuffer
    \/ Signature_fromHex
    \/ Signature_toHex

\* ------------------------------------------------------------------------
\* Signing engine (./ecdsa, ./ecsignature, ./hash, ./PublicKey)
\* ------------------------------------------------------------------------
\* Largest nonce seed the model lets signBufferSha256 reach.
MaxNonce == 11

\* Largest value of times the model lets signBuffer reach.
MaxTimes == 12

WarnEvery == 10       \* signBufferSha256 warns when nonce % 10 === 0
WarnAfter == 10       \* signBuffer warns when times++ > 10
HashLen == 32         \* bytes of a SHA-256 digest
CompressedFlag == 4   \* header offset marking a compressed key
NumRecovery == 4      \* recovery indices 0..3

\* Representative r and s values of the engine, as 32-byte forms.
EngineInts32 == <<
    <<128>> \o Fill(IntLen - 1, 1),
    <<0, 127>> \o Fill(IntLen - 2, 255),
    <<200, 200>> \o Fill(IntLen - 2, 0),
    Fill(IntLen - 1, 0) \o <<1>>,
    <<127>> \o Fill(IntLen - 1, 255),
    <<0, 128>> \o Fill(IntLen - 2, 0),
    <<1>> \o Fill(IntLen - 1, 0) >>

NumInts == Len(EngineInts32)

NumCands == NumInts * NumInts

\* The c-th raw signature {r, s} the engine can produce.
Cand(c) ==
    [r |-> BigInteger_fromBuffer(EngineInts32[(c \div NumInts) + 1]),
     s |-> BigInteger_fromBuffer(EngineInts32[(c % NumInts) + 1])]

Strides == {0, 1, 5}

\* sign(curve, hash, d, nonce) is a function of its arguments: for a given
\* hash and key it is a table from nonce seeds to raw signatures.
EngineTable(p, q) == [n \in 0..MaxNonce |-> Cand((p + q * n) % NumCands)]

EngineTables == {EngineTable(p, q) : p \in 0..(NumCands - 1), q \in Strides}

\* sha256(buffer): always a 32-byte Buffer; id names the digest.
HashIds == {0, 1}

sha256(id) == [len |-> HashLen, isBuffer |-> TRUE, id |-> id]

\* ECSignature.prototype.toDER
toDER(ecsig) ==
    LET rBa == toByteArray(ecsig.r)
        sBa == toByteArray(ecsig.s)
        body == <<2, Len(rBa)>> \o rBa \o <<2, Len(sBa)>> \o sBa
    IN  <<48, Len(body)>> \o body

\* The point of the signer's key is "Q"; the other candidate points of a
\* signature are "P0".."P3".
OtherPoints == <<"P0", "P1", "P2", "P3">>

CandIndex(ecsig) ==
    CHOOSE c \in 0..(NumCands - 1) : Cand(c).r = ecsig.r /\ Cand(c).s = ecsig.s

\* recoverPubKey(curve, e, signature, i): of the candidate points of
\* (e, r, s) exactly one is the signer's; an index above 3 is refused.
recoverPubKey(e, ecsig, i) ==
    IF i \notin 0..(NumRecovery - 1) THEN "Recovery param is more than two bits"
    ELSE IF i = (CandIndex(ecsig) + e) % NumRecovery THEN "Q"
    ELSE OtherPoints[i + 1]

\* calcPubKeyRecoveryParam(curve, e, signature, Q): the first index whose
\* recovered point equals Q.
calcPubKeyRecoveryParam(e, ecsig, Q) ==
    CHOOSE i \in 0..(NumRecovery - 1) :
        /\ recoverPubKey(e, ecsig, i) = Q
        /\ \A j \in 0..(i - 1) : recoverPubKey(e, ecsig, j) # Q

PublicKey_fromPoint(Q) == [Q |-> Q]

NoKey == [Q |-> "none"]

\* ------------------------------------------------------------------------
\* class Signature: isCanonical, signBuffer, signBufferSha256, recovery
\* ------------------------------------------------------------------------
\* isCanonical with the negation of the second-byte test dropped.
isCanonical_NoNegation(self) ==
    LET r == BigInteger_toBuffer(self.r, IntLen)
        s == BigInteger_toBuffer(self.s, IntLen)
    IN  /\ ~(r[1] >= 128)
        /\ ~(r[1] = 0 /\ (r[2] >= 128))
        /\ ~(s[1] >= 128)
        /\ ~(s[1] = 0 /\ (s[2] >= 128))

isCanonical(self) ==
    LET r == BigInteger_toBuffer(self.r, IntLen)
        s == BigInteger_toBuffer(self.s, IntLen)
    IN  /\ ~(r[1] >= 128)
        /\ ~(r[1] = 0 /\ ~(r[2] >= 128))
        /\ ~(s[1] >= 128)
        /\ ~(s[1] = 0 /\ ~(s[2] >= 128))

\* The guard of signBufferSha256 with > for !==.
hashRejected_Greater(h) == h.len > HashLen \/ ~h.isBuffer

\* line 97: the guard of signBufferSha256
hashRejected(h) == h.len # HashLen \/ ~h.isBuffer

\* lines 107-108: the two integer lengths read from the DER bytes
derLenR(der) == der[3 + 1]

derLenS(der) == der[5 + derLenR(der) + 1]

\* The acceptance test looking at lenR alone.
lengthAccepted_OnlyR(lenR, lenS) == lenR = IntLen

\* The acceptance test with >= for ===.
lengthAccepted_AtLeast(lenR, lenS) == lenR >= IntLen /\ lenS >= IntLen

\* line 109
lengthAccepted(lenR, lenS) == lenR = IntLen /\ lenS = IntLen

\* lines 110-117
headerByte(recoveryParam) == recoveryParam + CompressedFlag + HeaderBase

\* The recovery index taken from the bottom 3 bits.
recoveryIndex_Mask7(i) == BitAnd(i - HeaderBase, HeaderMask)

\* lines 51-53
recoveryIndex(i) == BitAnd(i - HeaderBase, RecoveryMask)

\* lines 142-147 and 159-164
verifyRejected(len) == len # HashLen

NoVerify == [fn |-> "none", len |-> 0, result |-> "none"]

SignInit ==
    /\ pc = "idle"
    /\ entry = "none"
    /\ hash = sha256(0)
    /\ engine = EngineTable(0, 0)
    /\ nonce = 0
    /\ attempts = <<>>
    /\ inLoop = FALSE
    /\ signature = NoSig
    /\ times = 0
    /\ log = <<>>
    /\ signError = ""
    /\ recovered = NoKey
    /\ verifyCalls = 0
    /\ verifyOut = NoVerify

\* signBuffer, lines 79-80: hash the message and call signBufferSha256.
signBuffer_call ==
    /\ pc = "idle"
    /\ \E id \in HashIds, tbl \in EngineTables :
        /\ hash' = sha256(id)
        /\ engine' = tbl
    /\ entry' = "signBuffer"
    /\ pc' = "check"
    /\ UNCHANGED <<nonce, attempts, inLoop, signature, times, log, signError,
                   recovered, verifyCalls, verifyOut>>
    /\ UNCHANGED <<codecVars, abiVars>>

\* A direct call of signBufferSha256 with any argument.
signBufferSha256_call ==
    /\ pc = "idle"
    /\ \E len \in {HashLen - 1, HashLen, HashLen + 1}, isBuf \in BOOLEAN,
          id \in HashIds, tbl \in EngineTables :
        /\ hash' = [len |-> len, isBuffer |-> isBuf, id |-> id]
        /\ engine' = tbl
    /\ entry' = "signBufferSha256"
    /\ pc' = "check"
    /\ UNCHANGED <<nonce, attempts, inLoop, signature, times, log, signError,
                   recovered, verifyCalls, verifyOut>>
    /\ UNCHANGED <<codecVars, abiVars>>

\* signBufferSha256, lines 97-102
signBufferSha256_check ==
    /\ pc = "check"
    /\ IF hashRejected(hash)
       THEN /\ signError' = "buf_sha256: 32 byte buffer requred"
            /\ pc' = "thrown"
            /\ UNCHANGED <<nonce, attempts>>
       ELSE /\ nonce' = 0
            /\ attempts' = <<>>
            /\ pc' = "attempt"
            /\ UNCHANGED signError
    /\ UNCHANGED <<entry, hash, engine, inLoop, signature, times, log,
                   recovered, verifyCalls, verifyOut>>
    /\ UNCHANGED <<codecVars, abiVars>>

\* signBufferSha256, one pass of the while (true) of lines 103-123, with
\* the return of line 124 and, in signBuffer, lines 81 and 84-86.
signBufferSha256_attempt ==
    /\ pc = "attempt"
    /\ nonce <= MaxNonce
    /\ LET ecsignature == engine[nonce]
           der == toDER(ecsignature)
           lenR == derLenR(der)
           lenS == derLenS(der)
           i == headerByte(calcPubKeyRecoveryParam(hash.id, ecsignature, "Q"))
       IN
       /\ nonce' = nonce + 1
       /\ attempts' = Append(attempts, <<nonce, ecsignature>>)
       /\ IF lengthAccepted(lenR, lenS)
          THEN /\ signature' = Signature(ecsignature.r, ecsignature.s, i)
               /\ pc' = IF entry = "signBuffer" THEN "while" ELSE "done"
               /\ times' = IF entry = "signBuffer"
                           THEN (IF inLoop THEN times + 1 ELSE 0)
                           ELSE times
               /\ log' = IF entry = "signBuffer" /\ inLoop /\ times > WarnAfter
                         THEN Append(log, <<"ECDSA tried", times + 1>>)
                         ELSE log
          ELSE /\ log' = IF (nonce + 1) % WarnEvery = 0
                         THEN Append(log, <<"attempts", nonce + 1>>)
                         ELSE log
               /\ UNCHANGED <<signature, pc, times>>
    /\ UNCHANGED <<entry, hash, engine, inLoop, signError, recovered,
                   verifyCalls, verifyOut>>
    /\ UNCHANGED <<codecVars, abiVars>>

\* signBuffer, the test of line 82: return (line 88) or sign again (line 83).
signBuffer_while ==
    /\ pc = "while"
    /\ IF isCanonical(signature)
       THEN /\ pc' = "done"
            /\ UNCHANGED inLoop
       ELSE /\ times <= MaxTimes
            /\ pc' = "check"
            /\ inLoop' = TRUE
    /\ UNCHANGED <<entry, hash, engine, nonce, attempts, signature, times, log,
                   signError, recovered, verifyCalls, verifyOut>>
    /\ UNCHANGED <<codecVars, abiVars>>

\* recoverPublicKeyFromBuffer on the message that was signed, lines 41-56
recoverPublicKey ==
    /\ pc = "done"
    /\ recovered = NoKey
    /\ recovered' = PublicKey_fromPoint(
            recoverPubKey(hash.id, signature, recoveryIndex(signature.i)))
    /\ UNCHANGED <<pc, entry, hash, engine, nonce, attempts, inLoop, signature,
                   times, log, signError, verifyCalls, verifyOut>>
    /\ UNCHANGED <<codecVars, abiVars>>

\* verifyHash, lines 142-157, on a hash of any length
verifyHash ==
    /\ pc = "done"
    /\ verifyOut = NoVerify
    /\ \E len \in {HashLen - 1, HashLen, HashLen + 1}, id \in HashIds :
        IF verifyRejected(len)
        THEN /\ verifyOut' = [fn |-> "verifyHash", len |-> len,
                              result |-> "thrown"]
             /\ UNCHANGED verifyCalls
        ELSE /\ verifyCalls' = verifyCalls + 1
             /\ verifyOut' = [fn |-> "verifyHash", len |-> len,
                              result |-> IF id = hash.id THEN "true" ELSE "false"]
    /\ UNCHANGED <<pc, entry, hash, engine, nonce, attempts, inLoop, signature,
                   times, log, signError, recovered>>
    /\ UNCHANGED <<codecVars, abiVars>>

\* verifyHashV2, lines 159-170: the primitive gets the 64 bytes r || s
verifyHashV2 ==
    /\ pc = "done"
    /\ verifyOut = NoVerify
    /\ \E len \in {HashLen - 1, HashLen, HashLen + 1}, id \in HashIds,
          fresh \in FreshBuffers :
        IF verifyRejected(len)
        THEN /\ verifyOut' = [fn |-> "verifyHashV2", len |-> len,
                              result |-> "thrown"]
             /\ UNCHANGED verifyCalls
        ELSE /\ verifyCalls' = verifyCalls + 1
             /\ verifyOut' =
                    [fn |-> "verifyHashV2", len |-> len,
                     result |->
                        IF /\ id = hash.id
                           /\ Slice(toBuffer(signature, fresh), 1, SigLen) =
                                BigInteger_toBuffer(signature.r, IntLen)
                                    \o BigInteger_toBuffer(signature.s, IntLen)
                        THEN "true" ELSE "false"]
    /\ UNCHANGED <<pc, entry, hash, engine, nonce, attempts, inLoop, signature,
                   times, log, signError, recovered>>
    /\ UNCHANGED <<codecVars, abiVars>>

SignNext ==
    \/ signBuffer_call
    \/ signBufferSha256_call
    \/ signBufferSha256_check
    \/ signBufferSha256_attempt
    \/ signBuffer_while
    \/ recoverPublicKey
    \/ verifyHash
    \/ verifyHashV2

\* ------------------------------------------------------------------------
\* serializeCallData (tx_serializer.js)
\* ------------------------------------------------------------------------
\* Largest number of serializeCallData calls on one abi object.
MaxCalls == 3

Str_u64 == <<"u", "6", "4">>

Str_str == <<"s", "t", "r">>

Str_acct == <<"a", "c", "c", "t">>

Str_asset == <<"a", "s", "s", "e", "t">>

Str_zzz == <<"z", "z", "z">>

Brackets == <<"[", "]">>

\* The serializers of ./serializer/src/types and ./serializer/src/operations
\* that the modelled abis can name.
types == {Str_u64, Str_str}

ops == {Str_asset}

Field(name, type) == [name |-> name, type |-> type]

AbiObjects == {
    [structs |-> <<
        [name |-> "transfer",
         fields |-> <<Field("to", Str_acct),
                      Field("amounts", Str_u64 \o Brackets),
                      Field("memo", Str_str)>>],
        [name |-> "vote",
         fields |-> <<Field("to", Str_acct \o Brackets),
                      Field("amounts", Str_zzz \o Brackets),
                      Field("memo", Str_asset \o Brackets)>>] >>,
     types |-> << [new_type_name |-> Str_acct, type |-> Str_u64] >>],
    [structs |-> <<
        [name |-> "transfer",
         fields |-> <<Field("memo", Str_str \o Brackets),
                      Field("to", Str_asset)>>],
        [name |-> "vote",
         fields |-> <<Field("amounts", Str_u64)>>] >>,
     types |-> << >>] }

ActionNames == {"transfer", "vote", "claim"}

ParamObjects == {
    [to |-> "alice", amounts |-> "1,2", memo |-> "hi"],
    [to |-> "bob", amounts |-> "", memo |-> ""] }

\* isArrayType, lines 6-8: type.indexOf("[]") !== -1
isArrayType(type) ==
    \E k \in 1..(Len(type) - 1) : type[k] = "[" /\ type[k + 1] = "]"

\* type.split("[")[0], line 19
SplitHead(type) ==
    IF \E k \in 1..Len(type) : type[k] = "["
    THEN SubSeq(type, 1,
            (CHOOSE k \in 1..Len(type) :
                type[k] = "[" /\ \A j \in 1..(k - 1) : type[j] # "[") - 1)
    ELSE type

\* JSON.parse(JSON.stringify(abi)), line 11: a new object with the same
\* content; shared tells whether a write to it reaches the caller's object.
\* The abi object used as given, without the copy.
JSON_clone_Alias(obj) == [value |-> obj, shared |-> TRUE]

JSON_clone(obj) == [value |-> obj, shared |-> FALSE]

\* abi.structs.find(s => s.name === action): index of the first, 0 if none
FindStruct(abiObj, action) ==
    IF \E k \in 1..Len(abiObj.structs) : abiObj.structs[k].name = action
    THEN CHOOSE k \in 1..Len(abiObj.structs) :
            /\ abiObj.structs[k].name = action
            /\ \A j \in 1..(k - 1) : abiObj.structs[j].name # action
    ELSE 0

\* lines 17-20: the field as the forEach body leaves it
FieldAfter(f) ==
    IF isArrayType(f.type) THEN [f EXCEPT !.type = SplitHead(f.type)] ELSE f

\* lines 22-31: the serializer the (stripped) type name resolves to,
\* <<>> when it resolves to none
ResolveType(abiObj, typeName) ==
    LET k == IF \E j \in 1..Len(abiObj.types) :
                    abiObj.types[j].new_type_name = typeName
             THEN CHOOSE j \in 1..Len(abiObj.types) :
                    /\ abiObj.types[j].new_type_name = typeName
                    /\ \A m \in 1..(j - 1) :
                            abiObj.types[m].new_type_name # typeName
             ELSE 0
    IN  IF typeName \in types THEN typeName
        ELSE IF k # 0 /\ abiObj.types[k].type \in types
        THEN abiObj.types[k].type
        ELSE IF typeName \in ops THEN typeName
        ELSE <<>>

\* lines 15-38: what one field appends to the byte buffer
FieldOutput(abiObj, f, params) ==
    LET type == ResolveType(abiObj, FieldAfter(f).type) IN
    IF type = <<>> THEN <<>>
    ELSE << [type |-> type, set |-> isArrayType(f.type),
             value |-> params[f.name]] >>

RECURSIVE FieldsOutput(_, _, _)
FieldsOutput(abiObj, fields, params) ==
    IF fields = <<>> THEN <<>>
    ELSE FieldOutput(abiObj, Head(fields), params)
            \o FieldsOutput(abiObj, Tail(fields), params)

\* The buffer serializeCallData returns for an abi object as given
CallDataOf(abiObj, action, params) ==
    LET k == FindStruct(abiObj, action) IN
    IF k = 0 THEN << [type |-> <<>>, set |-> FALSE, value |-> "TypeError"] >>
    ELSE FieldsOutput(abiObj, abiObj.structs[k].fields, params)

\* The abi object the forEach of lines 14-39 leaves behind
AbiAfter(abiObj, action) ==
    LET k == FindStruct(abiObj, action) IN
    IF k = 0 THEN abiObj
    ELSE [abiObj EXCEPT !.structs[k].fields =
            [j \in 1..Len(abiObj.structs[k].fields) |->
                FieldAfter(abiObj.structs[k].fields[j])]]

AbiInit ==
    /\ abi \in AbiObjects
    /\ abi0 = abi
    /\ outputs = <<>>

\* No abi object in use.
AbiIdle ==
    /\ abi = [structs |-> <<>>, types |-> <<>>]
    /\ abi0 = abi
    /\ outputs = <<>>

serializeCallData ==
    /\ Len(outputs) < MaxCalls
    /\ \E action \in ActionNames, params \in ParamObjects :
        LET local == JSON_clone(abi) IN
        /\ outputs' = Append(outputs,
                [action |-> action, params |-> params,
                 out |-> CallDataOf(local.value, action, params)])
        /\ abi' = IF local.shared THEN AbiAfter(local.value, action) ELSE abi
    /\ UNCHANGED abi0
    /\ UNCHANGED <<codecVars, signVars>>

AbiNext == serializeCallData

\* ------------------------------------------------------------------------
\* Specifications
\* ------------------------------------------------------------------------
\* Nothing called yet, no abi object in use.
Init == CodecInit /\ SignInit /\ AbiIdle

\* Nothing called yet, the caller has built an abi object.
InitAbi == CodecInit /\ SignInit /\ AbiInit

SpecCodec == Init /\ [][CodecNext]_vars

SpecSign == Init /\ [][SignNext]_vars

\* A call that has started runs on: JavaScript executes it to completion.
FairSpecSign ==
    /\ SpecSign
    /\ WF_vars(signBufferSha256_check)
    /\ WF_vars(signBufferSha256_attempt)
    /\ WF_vars(signBuffer_while)

SpecAbi == InitAbi /\ [][AbiNext]_vars

\* ------------------------------------------------------------------------
\* Properties
\* ------------------------------------------------------------------------
HeaderRange == HeaderBase..(HeaderBase + HeaderMask)

LowerCase(c) ==
    CASE c = "A" -> "a" [] c = "B" -> "b" [] c = "C" -> "c"
      [] c = "D" -> "d" [] c = "E" -> "e" [] c = "F" -> "f"
      [] OTHER -> c

LowerCaseAll(hex) == [k \in 1..Len(hex) |-> LowerCase(hex[k])]

\* The 32-byte big-endian form of a magnitude below 2^256.
Bytes32(x) == Fill(IntLen - Len(x), 0) \o x

\* Section 4.2 of the specification, for one 32-byte integer.
ShapeCanonical(b) == b[1] < 128 /\ ~(b[1] = 0 /\ b[2] < 128)

\* Length of the minimal DER INTEGER content of a magnitude.
DERLength(x) ==
    IF x = <<>> THEN 1 ELSE IF x[1] >= 128 THEN Len(x) + 1 ELSE Len(x)

LengthCanonical(ecsig) ==
    DERLength(ecsig.r) = IntLen /\ DERLength(ecsig.s) = IntLen

\* C1: a 65-byte buffer whose byte 0 is in [27, 34] is decoded without error
\* and toBuffer of the decoded Signature gives back the same 65 bytes,
\* whatever the new buffer held before it was written.
C1_BufferRoundTrip ==
    (op \in {"fromBuffer", "toBuffer"} /\ Len(inBuf) = SigLen
        /\ inBuf[1] \in HeaderRange)
    => /\ thrown = ""
       /\ sig # NoSig
       /\ op = "toBuffer" => outBuf = inBuf

\* A round trip of a buffer whose r starts with two zero bytes and whose s
\* has the top bit set.
C1_Witness ==
    /\ op = "toBuffer"
    /\ inBuf[2] = 0 /\ inBuf[3] = 0 /\ inBuf[34] >= 128
    /\ outBuf = inBuf

\* C2: fromBuffer produces a Signature exactly when the buffer has 65 bytes
\* and its byte 0 is in [27, 34]; otherwise it raises an error and no
\* Signature exists.
C2_FromBufferAccepts ==
    op = "fromBuffer"
    => /\ (thrown = "") <=> (Len(inBuf) = SigLen /\ inBuf[1] \in HeaderRange)
       /\ (sig # NoSig) <=> (thrown = "")

\* fromBuffer has refused a 65-byte buffer whose header byte is 35.
C2_Witness ==
    /\ op = "fromBuffer"
    /\ Len(inBuf) = SigLen /\ inBuf[1] = HeaderBase + HeaderMask + 1
    /\ thrown # "" /\ sig = NoSig

\* The byte that the first two digits of a hex string encode.
HeaderOfHex(hex) == 16 * HexVal(hex[1]) + HexVal(hex[2])

\* C5 as stated: for every string of 130 hex digits, fromHex succeeds and
\* toHex of the result is the string in lower case.
C5_AnyHexRoundTrip ==
    (op \in {"fromHex", "toHex"} /\ Len(inHex) = 2 * SigLen)
    => /\ thrown = ""
       /\ op = "toHex" => outHex = LowerCaseAll(inHex)

\* C5 amended: for every string of 130 hex digits whose first two digits
\* encode a byte in [27, 34], fromHex succeeds and toHex of the result is the
\* string in lower case; for every other first byte fromHex raises an error.
C5_HexRoundTrip ==
    (op \in {"fromHex", "toHex"} /\ Len(inHex) = 2 * SigLen)
    => IF HeaderOfHex(inHex) \in HeaderRange
       THEN /\ thrown = ""
            /\ op = "toHex" => outHex = LowerCaseAll(inHex)
       ELSE thrown # "" /\ sig = NoSig

\* A round trip of an upper-case hex string.
C5_Witness ==
    /\ op = "toHex"
    /\ inHex[2] = "B" /\ inHex[3] = "8"
    /\ outHex # inHex
    /\ outHex = LowerCaseAll(inHex)

\* C3: the Signature signBuffer returns has the canonical shape of section
\* 4.2: r and s, as 32 bytes, have the top bit clear and no zero first byte
\* followed by a byte with the top bit clear.
C3_SignBufferCanonical ==
    (pc = "done" /\ entry = "signBuffer")
    => /\ ShapeCanonical(Bytes32(signature.r))
       /\ ShapeCanonical(Bytes32(signature.s))

\* signBuffer has returned after the engine produced rejected candidates.
C3_Witness ==
    /\ pc = "done" /\ entry = "signBuffer"
    /\ Len(attempts) >= 3
    /\ ShapeCanonical(Bytes32(signature.r))

\* C4: the header byte written at signing is the recovery parameter plus 31,
\* the index recoverPublicKey derives from it is that recovery parameter, and
\* the key recovered from the signed message is the signer's.
C4_SignThenRecover ==
    /\ pc = "done"
        => /\ signature.i \in (HeaderBase + CompressedFlag)..(HeaderBase + HeaderMask)
           /\ signature.i - HeaderBase - CompressedFlag
                = calcPubKeyRecoveryParam(hash.id, signature, "Q")
    /\ recovered # NoKey => recovered = PublicKey_fromPoint("Q")

\* The signer's key recovered from a signature whose recovery index is 3.
C4_Witness ==
    /\ entry = "signBuffer"
    /\ recovered = PublicKey_fromPoint("Q")
    /\ signature.i = HeaderBase + CompressedFlag + 3

\* C6: a hash that is not 32 bytes long makes signBufferSha256 throw before
\* any engine call and before any Signature exists, and makes verifyHash and
\* verifyHashV2 throw before the verification primitive is called.
C6_BadHashRejected ==
    /\ (entry = "signBufferSha256" /\ hash.len # HashLen /\ pc \notin {"idle", "check"})
        => /\ pc = "thrown"
           /\ signError # ""
           /\ attempts = <<>>
           /\ signature = NoSig
    /\ (verifyOut # NoVerify /\ verifyOut.len # HashLen)
        => /\ verifyOut.result = "thrown"
           /\ verifyCalls = 0

\* signBufferSha256 has thrown on a 31-byte Buffer.
C6_Witness ==
    /\ pc = "thrown"
    /\ hash.len = HashLen - 1 /\ hash.isBuffer
    /\ attempts = <<>>

\* C7: the engine is called with nonce seeds 0, 1, 2, ... in order, once per
\* attempt; every attempt before the last had lenR # 32 or lenS # 32; the
\* Signature returned carries the (r, s) of the last attempt, the first with
\* lenR = 32 and lenS = 32; warnings logged on the way change none of this.
C7_NonceOrder ==
    /\ nonce = Len(attempts)
    /\ \A k \in 1..Len(attempts) :
        /\ attempts[k][1] = k - 1
        /\ attempts[k][2] = engine[k - 1]
        /\ k < Len(attempts) => ~LengthCanonical(attempts[k][2])
    /\ pc = "attempt" =>
        \A k \in 1..Len(attempts) : ~LengthCanonical(attempts[k][2])
    /\ pc \in {"while", "done"} =>
        /\ attempts # <<>>
        /\ LengthCanonical(attempts[Len(attempts)][2])
        /\ signature.r = attempts[Len(attempts)][2].r
        /\ signature.s = attempts[Len(attempts)][2].s

\* A signature returned at nonce seed 10 or later, after the warning of the
\* tenth failed attempt.
C7_Witness ==
    /\ pc = "done"
    /\ Len(attempts) > WarnEvery
    /\ log = << <<"attempts", WarnEvery>> >>

\* 32-byte forms covering every class of first and second byte.
ShapeInts32 ==
    {<<a, b>> \o Fill(IntLen - 2, c) :
        a \in {0, 1, 127, 128, 255}, b \in {0, 1, 127, 128, 255}, c \in {0, 255}}

\* C8 as stated: for the hash at hand there are r and s that signBufferSha256
\* accepts, their minimal DER integers both 32 bytes long, while isCanonical
\* of the Signature it would return is false.
C8_LengthButNotShape ==
    \E r32 \in ShapeInts32, s32 \in ShapeInts32 :
        LET ecsig == Signature(BigInteger_fromBuffer(r32),
                               BigInteger_fromBuffer(s32), headerByte(hash.id))
            der == toDER(ecsig)
        IN  /\ LengthCanonical(ecsig)
            /\ lengthAccepted(derLenR(der), derLenS(der))
            /\ ~isCanonical(ecsig)

\* C8 amended: every Signature signBufferSha256 returns has lenR = 32 and
\* lenS = 32 and satisfies isCanonical, so the while loop of signBuffer
\* never signs again.
C8_LengthImpliesShape ==
    /\ pc \in {"while", "done"} =>
        /\ LengthCanonical(signature)
        /\ isCanonical(signature)
    /\ ~inLoop
    /\ times = 0

\* signBufferSha256 has returned to signBuffer a Signature whose r has a
\* zero first byte.
C8_Witness ==
    /\ pc = "while"
    /\ Bytes32(signature.r)[1] = 0
    /\ isCanonical(signature)

\* C9: once signBuffer has been called with an engine that, as a function of
\* the nonce seed, gives lenR = 32 and lenS = 32 for some seed, signBuffer
\* returns.
C9_SignBufferReturns ==
    (pc = "check" /\ entry = "signBuffer"
        /\ \E n \in 0..MaxNonce : LengthCanonical(engine[n]))
    ~> (pc = "done")

\* signBuffer has returned after rejected candidates, having passed the
\* while test once.
C9_Witness ==
    /\ pc = "done" /\ entry = "signBuffer"
    /\ Len(attempts) >= 2
    /\ times = 0 /\ ~inLoop

\* C10: after any calls the caller's abi object is as the caller built it,
\* and every call returned what serializeCallData returns for that object,
\* array fields as sets.
C10_AbiUnchanged ==
    /\ abi = abi0
    /\ \A k \in 1..Len(outputs) :
        outputs[k].out = CallDataOf(abi0, outputs[k].action, outputs[k].params)

\* Two calls for the same struct, the second serializing an array field as
\* a set.
C10_Witness ==
    /\ Len(outputs) >= 2
    /\ outputs[1].action = "transfer" /\ outputs[2].action = "transfer"
    /\ \E j \in 1..Len(outputs[2].out) : outputs[2].out[j].set
    /\ abi = abi0

====
